---- MODULE Spec2Model ----
(***************************************************************************)
(* TestClient (src/tests/utils/test_client.py): the client harness that    *)
(* spawns the server as a child process, performs the retrying initialize  *)
(* handshake, correlates responses read by a background thread with the    *)
(* requests that caused them, and tears the child down on close().         *)
(*                                                                         *)
(* Time is counted in units of wait_interval (0.2 s): max_wait_time (8 s)  *)
(* is 40 units, the "elapsed >= 1" threshold is 5 units and the default    *)
(* timeout of _wait_for_response (10 s) is 50 units.  The 40 iterations    *)
(* and the first attempt at the 5th are what the floating point sum of     *)
(* 0.2 gives as well.                                                      *)
(***************************************************************************)
EXTENDS Integers, Sequences, FiniteSets, TLC

\* ---------------------------------------------------------------- bounds
MaxId == 3             \* call_tool is not invoked once MaxId ids were asked
                       \* for; the child answers while at most MaxId requests
                       \* were written, and is silent from then on
MaxTimeoutTicks == 1   \* call_tool timeouts are 1..MaxTimeoutTicks ticks
TickStep == 25         \* time a blocked waiter sees pass in one Tick
MaxCloses == 2         \* close() invocations
MaxReadyDelay == 60    \* the child becomes ready within this time
RunTickStep == 10      \* seconds a waiting test runner sees pass in one step
MaxLines == 2          \* unread lines on stdout when the child writes one
                       \* that answers no request
MaxNotes == 1          \* notifications the child writes while one is held
MaxScripts == 3        \* test scripts run-all-tests.py finds
MaxClients == 3        \* TestClients one ToolTestBase constructs

\* ------------------------------------------------------ program constants
max_wait_time == 40    \* 8 s
wait_interval == 1     \* 0.2 s
init_after == 5        \* elapsed >= 1
default_timeout == 50  \* _wait_for_response(timeout=10)
run_timeout == 30      \* run-all-tests.py: subprocess.run(timeout=30), seconds
close_grace == 25      \* close(): self.process.wait(timeout=5)
mc_timeout == 25       \* McpTestClient: response_queue.get(timeout=5)
wc_timeout == 15       \* test_pattern_with_timeout(pattern, timeout=3)

\* The thread that constructs the client, and one more that may share it.
Main == "main"
Other == "other"
Threads == {Main, Other}
CallTimeouts == {k * TickStep : k \in 1..MaxTimeoutTicks}
SharedTimeout == MaxTimeoutTicks * TickStep
NoMsg == [id |-> 0, to |-> "nobody", kind |-> "none"]

\* The members of a response that call_tool looks at.  A member is absent,
\* null or has a value; an error value is a JSON object, with or without a
\* message.
Payloads == {"p1", "p2"}
ErrorMessages == {"m1", "m2"}
NoError == [kind |-> "absent", message |-> "absent"]
Errors ==
    {NoError, [kind |-> "null", message |-> "absent"]}
        \cup {[kind |-> "object", message |-> m] : m \in ErrorMessages \cup {"absent"}}
Responses ==
    [id : 1..MaxId, result : {"absent", "null"} \cup Payloads, error : Errors]
NoResponse == [id |-> 0, result |-> "absent", error |-> NoError]
NoReturn ==
    [keys |-> {}, success |-> FALSE, message |-> "absent", result |-> "absent",
     error |-> NoError]

VARIABLES
    process,         \* self.process: "None" or "Popen"
    request_id,      \* self.request_id
    initialized,     \* self._initialized
    response_queue,  \* self.response_queue, a FIFO of decoded messages
    elapsed,         \* _start_server's local elapsed
    pc,              \* per thread: where it is
    ctx,             \* per thread: "init" (_initialize) or "call" (call_tool)
    tmp,             \* per thread: the value loaded by request_id += 1
    rid,             \* per thread: request["id"]
    timeout,         \* per thread: timeout of the current _wait_for_response
    waited,          \* per thread: time.time() - start_time
    deferred,        \* per thread: the local list deferred; after the wait
                     \* ended, the list it put back
    outcome,         \* per thread: how the last operation ended
    result,          \* per thread: the message _wait_for_response returned
    child,           \* the server process: "starting", "ready" or "exited"
    sent,            \* every request line written to the child's stdin
    answered,        \* indices of sent the child has answered
    stdout,          \* lines the child wrote that the reader has not read
    reader,          \* the _read_stdout thread: "running" or "eof"
    signals,         \* signals close() sent, in order
    closes,          \* close() invocations completed
    allocated,       \* ids returned by _next_id, in order of return
    timedOut,        \* ids whose wait ended in TimeoutError
    wrote,           \* ids of the response lines the child wrote, in order
    arrived,         \* per thread: its response was enqueued while it waited,
                     \* before its deadline
    eofWaiters,      \* <<thread, id>> of the calls blocked at end-of-stream
    delivered,       \* the messages _wait_for_response returned, in order
    wall,            \* time since the startup loop began, while it runs
    readyDelay,      \* the child cannot answer before this time
    response,        \* call_tool: the response _wait_for_response returned
    returned,        \* call_tool: what it returned for that response
    runPc,           \* per test runner: where its run_test is
    script,          \* per test runner: the test script it spawned
    runClock,        \* per test runner: seconds its run_test has waited
    verdict,         \* per test runner: what run_test reported
    mainPc,          \* run-all-tests.main: where it is
    test_files,      \* main: the number of test scripts it found
    index,           \* main: the position of the for loop in test_files
    results,         \* main: the verdicts appended so far
    passed,          \* main: its counter of passes
    failed,          \* main: its counter of failures
    exitCode,        \* main: what it returned, -1 before that
    started,         \* the positions main called run_test for, in order
    wrapPc,          \* run-test-with-cleanup: where the wrapper is
    child_processes, \* the wrapper's list of tracked processes
    testScript,      \* the test script the wrapper spawned
    matches,         \* whether the orphan sweep recognises that script
    cleanups,        \* how many times cleanup() has run
    procs,           \* the other processes psutil.process_iter would list
    descendant,      \* a process the child spawned, in the child's group
    mcRequestId,     \* McpTestClient.request_id
    mcServer,        \* McpTestClient's server process
    mcPending,       \* ids that server was sent and has not answered
    mcStdout,        \* lines that server wrote, not yet read
    mcQueue,         \* McpTestClient.response_queue
    mcPc,            \* where send_request is
    mcClock,         \* time response_queue.get has waited
    mcReturned,      \* what the last send_request returned
    wcServer,        \* test_pattern_with_timeout: the server process
    wcAnswered,      \* how many of its three requests that server answered
    wcStdout,        \* lines that server wrote, not yet read
    response_lines,  \* the lines read_output has collected
    wcThread,        \* the read_output thread
    wcPc,            \* where test_pattern_with_timeout is
    wcClock,         \* time thread.join has waited
    wcResult,        \* what test_pattern_with_timeout returned
    tbClient,        \* ToolTestBase.client: 0 for None, else the client
    tbCreated,       \* how many TestClients setup() has constructed
    tbOpen,          \* the constructed clients that were not closed
    tbOutcome,       \* how the last ToolTestBase method ended
    tbContacted      \* the calls ToolTestBase passed on to a client

vars == <<process, request_id, initialized, response_queue, elapsed, pc, ctx,
          tmp, rid, timeout, waited, deferred, outcome, result, child, sent,
          answered, stdout, reader, signals, closes, allocated, timedOut,
          wrote, arrived, eofWaiters, delivered, wall, readyDelay, response,
          returned, runPc, script, runClock, verdict, mainPc, test_files,
          index, results, passed, failed, exitCode, started, wrapPc,
          child_processes, testScript, matches, cleanups, procs,
          descendant, mcRequestId, mcServer, mcPending, mcStdout, mcQueue,
          mcPc, mcClock, mcReturned, wcServer, wcAnswered, wcStdout,
          response_lines, wcThread, wcPc, wcClock, wcResult, tbClient,
          tbCreated, tbOpen, tbOutcome, tbContacted>>

clientVars == <<process, request_id, initialized, response_queue, elapsed>>
threadVars == <<pc, ctx, tmp, rid, timeout, waited, deferred, outcome, result>>
childVars == <<child, sent, answered, stdout, wrote>>
ghostVars == <<allocated, timedOut, arrived, eofWaiters, delivered>>
closeVars == <<signals, closes>>
timeVars == <<wall, readyDelay>>
clientAll == <<clientVars, threadVars, childVars, reader, closeVars, ghostVars,
               timeVars>>
normVars == <<response, returned>>
runVars == <<runPc, script, runClock, verdict>>
mainVars == <<mainPc, test_files, index, results, passed, failed, exitCode,
              started>>
wrapVars == <<wrapPc, child_processes, testScript, matches, cleanups, procs>>
mcVars == <<mcRequestId, mcServer, mcPending, mcStdout, mcQueue, mcPc, mcClock,
            mcReturned>>
wcVars == <<wcServer, wcAnswered, wcStdout, response_lines, wcThread, wcPc,
            wcClock, wcResult>>
tbVars == <<tbClient, tbCreated, tbOpen, tbOutcome, tbContacted>>
toolVars == <<normVars, runVars, mainVars, wrapVars, mcVars, wcVars, tbVars>>
otherVars == <<toolVars, descendant>>

\* The three scripts that run test scripts, each with its run_test.
\* The processes the sweep can meet, by what it tests: the pid, the process
\* name, and whether an argument of the command line contains 'test-' and
\* '.py'.  "orphan" tells whether the run the process belonged to is over.
\* The wrapper itself is "python3 run-test-with-cleanup.py ...", whose
\* script argument contains both.
Self == [pid |-> 1, name |-> "python3", testArg |-> TRUE, orphan |-> FALSE]
Others ==
    {[pid |-> 2, name |-> "python3", testArg |-> TRUE, orphan |-> FALSE],
     [pid |-> 3, name |-> "python3", testArg |-> TRUE, orphan |-> TRUE],
     [pid |-> 4, name |-> "dotnet", testArg |-> FALSE, orphan |-> TRUE]}

\* Lines 37-39: the name is python3 or python and an argument matches.
Matched(q) == q.name \in {"python3", "python"} /\ q.testArg

\* Lines 33-41: every listed process but the current one that matches is
\* killed; what is left of the table.
Sweep(table) == {q \in table : q.pid = Self.pid \/ ~Matched(q)}

\* send_request returning None (protocol/test-client.py line 82).
McNone == [id |-> 0, kind |-> "none"]

\* The requests test_pattern_with_timeout writes, in order (lines 83-92).
Requests == <<"init", "load", "query">>

RunAll == "run_all_tests"
NotReturned == -1
Runners == {"run_all_tests", "run_multilang_tests", "run_test_with_cleanup"}

\* No runner has started a test script.
RunnersIdle ==
    /\ runPc = [r \in Runners |-> "idle"]
    /\ script = [r \in Runners |-> "none"]
    /\ runClock = [r \in Runners |-> 0]
    /\ verdict = [r \in Runners |-> "none"]
    /\ mainPc = "start"
    /\ test_files = 0
    /\ index = 0
    /\ results = <<>>
    /\ passed = 0
    /\ failed = 0
    /\ exitCode = NotReturned
    /\ started = <<>>
    /\ wrapPc = "start"
    /\ child_processes = {}
    /\ testScript = "none"
    /\ matches = FALSE
    /\ cleanups = 0
    /\ procs = {Self}
    /\ descendant = "none"
    /\ mcRequestId = 0
    /\ mcServer = "running"
    /\ mcPending = {}
    /\ mcStdout = <<>>
    /\ mcQueue = <<>>
    /\ mcPc = "idle"
    /\ mcClock = 0
    /\ mcReturned = McNone
    /\ wcServer = "running"
    /\ wcAnswered = 0
    /\ wcStdout = <<>>
    /\ response_lines = <<>>
    /\ wcThread = "reading"
    /\ wcPc = "join"
    /\ wcClock = 0
    /\ wcResult = "none"
    /\ tbClient = 0
    /\ tbCreated = 0
    /\ tbOpen = {}
    /\ tbOutcome = "none"
    /\ tbContacted = 0

\* The state when _start_server enters its retry loop (line 88): the child is
\* spawned, the reader thread runs, nothing has been sent.
InitWith(delay) ==
    /\ process = "Popen"
    /\ request_id = 0
    /\ initialized = FALSE
    /\ response_queue = <<>>
    /\ elapsed = 0
    /\ pc = [t \in Threads |-> IF t = Main THEN "hs_top" ELSE "idle"]
    /\ ctx = [t \in Threads |-> "init"]
    /\ tmp = [t \in Threads |-> 0]
    /\ rid = [t \in Threads |-> 0]
    /\ timeout = [t \in Threads |-> default_timeout]
    /\ waited = [t \in Threads |-> 0]
    /\ deferred = [t \in Threads |-> <<>>]
    /\ outcome = [t \in Threads |-> "none"]
    /\ result = [t \in Threads |-> NoMsg]
    /\ child = "starting"
    /\ sent = <<>>
    /\ answered = {}
    /\ stdout = <<>>
    /\ reader = "running"
    /\ signals = <<>>
    /\ closes = 0
    /\ allocated = <<>>
    /\ timedOut = {}
    /\ wrote = <<>>
    /\ arrived = [t \in Threads |-> FALSE]
    /\ eofWaiters = {}
    /\ delivered = <<>>
    /\ wall = 0
    /\ readyDelay = delay
    /\ response = NoResponse
    /\ returned = NoReturn
    /\ RunnersIdle

Init == InitWith(0)

\* ----------------------------------------------------------- faulty variants
\* Here and further down, ahead of the definition it is a variant of: a step
\* of the program with a plausible slip, which the properties at the end tell
\* apart from the step as written.

\* The except clause without "if elapsed >= max_wait_time: raise".
Raise_retry(t, e) ==
    /\ outcome' = [outcome EXCEPT ![t] = e]
    /\ pc' = [pc EXCEPT ![t] = IF ctx[t] = "init" THEN "hs_top" ELSE "idle"]

\* _start_server without "self._initialized = True".
Return_noflag(t) ==
    /\ outcome' = [outcome EXCEPT ![t] = "ok"]
    /\ pc' = [pc EXCEPT ![t] = "idle"]
    /\ initialized' = initialized

\* --------------------------------------------------- how an operation ends
\* An exception e leaves _initialize or call_tool.  In _start_server it is
\* caught (line 107): fatal once elapsed >= max_wait_time, else the loop
\* continues.  call_tool lets it propagate to the caller.
Raise(t, e) ==
    /\ outcome' = [outcome EXCEPT ![t] = e]
    /\ pc' = [pc EXCEPT ![t] =
                IF ctx[t] = "init"
                THEN (IF elapsed >= max_wait_time THEN "fatal" ELSE "hs_top")
                ELSE "idle"]

\* _wait_for_response returned a message.  In _start_server this sets
\* _initialized and returns (lines 104-106).
Return(t) ==
    /\ outcome' = [outcome EXCEPT ![t] = "ok"]
    /\ pc' = [pc EXCEPT ![t] = "idle"]
    /\ initialized' = IF ctx[t] = "init" THEN TRUE ELSE initialized

\* ------------------------------------------------------- threads and time
\* A thread blocked in _wait_for_response before its deadline.
Blocked(t) == pc[t] = "wait" /\ waited[t] < timeout[t]

\* Time passes (a sleep, a tick of the waiters' clocks) only between the
\* threads' reactions: the reader is blocked in readline (line 119) and wakes
\* when a line or end-of-stream is there, and a waiter polls the queue every
\* 0.1 s (line 201), so both have handled what is there before 0.2 s pass.
Settled ==
    /\ reader = "running" => (stdout = <<>> /\ child # "exited")
    /\ \A t \in Threads : Blocked(t) => response_queue = <<>>

\* ------------------------------------------------------------ _start_server
\* The loop without the self.process.poll() check.
start_server_top_nopoll(t) ==
    /\ pc[t] = "hs_top"
    /\ pc' = [pc EXCEPT ![t] = IF elapsed >= max_wait_time THEN "idle" ELSE "hs_sleep"]
    /\ UNCHANGED <<clientVars, ctx, tmp, rid, timeout, waited, deferred, outcome,
                   result, childVars, reader, closeVars, ghostVars, timeVars, otherVars>>

\* Top of the while loop: the loop condition, then the liveness check.
start_server_top(t) ==
    /\ pc[t] = "hs_top"
    /\ IF elapsed >= max_wait_time
       THEN pc' = [pc EXCEPT ![t] = "idle"] /\ UNCHANGED outcome
       ELSE IF child = "exited"
            THEN /\ pc' = [pc EXCEPT ![t] = "fatal"]
                 /\ outcome' = [outcome EXCEPT ![t] = "RuntimeError"]
            ELSE pc' = [pc EXCEPT ![t] = "hs_sleep"] /\ UNCHANGED outcome
    /\ UNCHANGED <<clientVars, ctx, tmp, rid, timeout, waited, deferred, result,
                   childVars, reader, closeVars, ghostVars, timeVars, otherVars>>

\* time.sleep(wait_interval); elapsed += wait_interval; then the attempt, if due.
start_server_sleep(t) ==
    /\ pc[t] = "hs_sleep"
    /\ Settled
    /\ elapsed' = elapsed + wait_interval
    /\ wall' = wall + wait_interval
    /\ IF elapsed' >= init_after /\ ~initialized
       THEN /\ pc' = [pc EXCEPT ![t] = "id_load"]
            /\ ctx' = [ctx EXCEPT ![t] = "init"]
            /\ timeout' = [timeout EXCEPT ![t] = default_timeout]
       ELSE /\ pc' = [pc EXCEPT ![t] = "hs_top"]
            /\ UNCHANGED <<ctx, timeout>>
    /\ UNCHANGED <<process, request_id, initialized, response_queue, tmp, rid,
                   waited, deferred, outcome, result, childVars, reader,
                   closeVars, ghostVars, readyDelay,
                   otherVars>>

\* ----------------------------------------------------------------- _next_id
\* self.request_id += 1 reads, adds and stores; the return reads again.
next_id_load(t) ==
    /\ pc[t] = "id_load"
    /\ tmp' = [tmp EXCEPT ![t] = request_id]
    /\ pc' = [pc EXCEPT ![t] = "id_store"]
    /\ UNCHANGED <<clientVars, ctx, rid, timeout, waited, deferred, outcome,
                   result, childVars, reader, closeVars, ghostVars, timeVars, otherVars>>

\* The counter stored back without the increment.
next_id_store_same(t) ==
    /\ pc[t] = "id_store"
    /\ request_id' = tmp[t]
    /\ pc' = [pc EXCEPT ![t] = "id_ret"]
    /\ UNCHANGED <<process, initialized, response_queue, elapsed, ctx, tmp, rid,
                   timeout, waited, deferred, outcome, result, childVars,
                   reader, closeVars, ghostVars, timeVars, otherVars>>

next_id_store(t) ==
    /\ pc[t] = "id_store"
    /\ request_id' = tmp[t] + 1
    /\ pc' = [pc EXCEPT ![t] = "id_ret"]
    /\ UNCHANGED <<process, initialized, response_queue, elapsed, ctx, tmp, rid,
                   timeout, waited, deferred, outcome, result, childVars,
                   reader, closeVars, ghostVars, timeVars, otherVars>>

next_id_return(t) ==
    /\ pc[t] = "id_ret"
    /\ rid' = [rid EXCEPT ![t] = request_id]
    /\ allocated' = Append(allocated, request_id)
    /\ pc' = [pc EXCEPT ![t] = "send_poll"]
    /\ UNCHANGED <<clientVars, ctx, tmp, timeout, waited, deferred, outcome,
                   result, childVars, reader, closeVars, timedOut, arrived,
                   eofWaiters,
                   delivered, timeVars, otherVars>>

\* ------------------------------------------------------------ _send_request
\* Line 181: self.process.poll().  On a closed client self.process is None
\* and the attribute access raises.
send_request_poll(t) ==
    /\ pc[t] = "send_poll"
    /\ IF process = "None" THEN Raise(t, "AttributeError")
       ELSE IF child = "exited" THEN Raise(t, "RuntimeError")
       ELSE pc' = [pc EXCEPT ![t] = "send_write"] /\ UNCHANGED outcome
    /\ UNCHANGED <<clientVars, ctx, tmp, rid, timeout, waited, deferred, result,
                   childVars, reader, closeVars, ghostVars, timeVars, otherVars>>

\* Line 188: the request line is written; stdin is line buffered, so the
\* line is on its way to the child.  A broken pipe becomes RuntimeError.
send_request_write(t) ==
    /\ pc[t] = "send_write"
    /\ IF process = "None"
       THEN Raise(t, "AttributeError")
            /\ UNCHANGED <<sent, waited, deferred, arrived>>
       ELSE IF child = "exited"
       THEN Raise(t, "RuntimeError")
            /\ UNCHANGED <<sent, waited, deferred, arrived>>
       ELSE /\ sent' = Append(sent, [id |-> rid[t], by |-> t])
            /\ pc' = [pc EXCEPT ![t] = "send_flush"]
            /\ waited' = [waited EXCEPT ![t] = 0]
            /\ deferred' = [deferred EXCEPT ![t] = <<>>]
            /\ arrived' = [arrived EXCEPT ![t] = FALSE]
            /\ UNCHANGED outcome
    /\ UNCHANGED <<clientVars, ctx, tmp, rid, timeout, result, child, answered,
                   stdout, wrote, reader, closeVars, allocated, timedOut,
                   eofWaiters,
                   delivered, timeVars, otherVars>>

\* Line 189: flush.  The caller then enters _wait_for_response (start_time,
\* deferred = []).
send_request_flush(t) ==
    /\ pc[t] = "send_flush"
    /\ pc' = [pc EXCEPT ![t] = "wait"]
    /\ UNCHANGED <<clientVars, ctx, tmp, rid, timeout, waited, deferred, outcome,
                   result, childVars, reader, closeVars, ghostVars, timeVars,
                   otherVars>>

\* ------------------------------------------------------ lines and messages
\* What the child can put on one line of its stdout, by the properties the
\* reader and the waiters test:
\*   "result", "error"  a response object with an id, its text free of the
\*                      build-output markers;
\*   "result_path"      a response object with an id whose payload mentions a
\*                      '.csproj' file or a '/bin/' path;
\*   "notification"     an object without an id (id 0 stands for the absent id);
\*   "scalar"           valid JSON that is not an object (number, string,
\*                      list, null);
\*   "text"             text that is not JSON;
\*   "build"            build output ('warning CS', 'Determining projects', ...);
\*   "blank"            an empty line or white space.
ResponseKinds == {"result", "error", "result_path"}
OtherKinds == {"notification", "scalar", "text", "build", "blank"}
NoId == 0

\* Lines 124-125: nothing is left after strip().
Blank(line) == line.kind = "blank"

\* Line 129: one of the markers occurs somewhere in the line.
Noise(line) == line.kind \in {"build", "result_path"}

\* Line 135: json.loads returns instead of raising JSONDecodeError.
Decodes(line) == line.kind # "text"

\* The decoded value is a dict, so that it has a get method (lines 137, 202).
IsObject(m) == m.kind # "scalar"

\* ------------------------------------------------------- _wait_for_response
\* The next response taken whatever its id, as with request_id=None.
MatchesAny(m, want) == TRUE

\* An id compared with <= instead of ==.
MatchesUpTo(m, want) == m.id <= want

\* Line 204: request_id is None or resp_id == request_id.  Every caller in
\* TestClient passes the id it allocated.
Matches(m, want) == m.id = want

\* _wait_for_response without its finally clause.
Requeue_drop(q, d) == q

\* Lines 215-218: the finally clause puts the deferred responses back.
Requeue(q, d) == q \o d

\* The loop condition inverted: TimeoutError whatever the time waited.
wait_for_response_timeout_early(t) ==
    /\ pc[t] = "wait"
    /\ response_queue' = Requeue(response_queue, deferred[t])
    /\ timedOut' = timedOut \cup {rid[t]}
    /\ Raise(t, "TimeoutError")
    /\ UNCHANGED <<process, request_id, initialized, elapsed, ctx, tmp, rid,
                   timeout, waited, deferred, result, childVars, reader,
                   closeVars, allocated, arrived, eofWaiters,
                   delivered, timeVars, otherVars>>

\* "while True": the loop without its deadline.
wait_for_response_timeout_never(t) ==
    /\ pc[t] = "wait"
    /\ waited[t] < 0
    /\ response_queue' = Requeue(response_queue, deferred[t])
    /\ timedOut' = timedOut \cup {rid[t]}
    /\ Raise(t, "TimeoutError")
    /\ UNCHANGED <<process, request_id, initialized, elapsed, ctx, tmp, rid,
                   timeout, waited, deferred, result, childVars, reader,
                   closeVars, allocated, arrived, eofWaiters,
                   delivered, timeVars, otherVars>>

\* The loop condition fails (line 199): TimeoutError (line 214).
wait_for_response_timeout(t) ==
    /\ pc[t] = "wait"
    /\ waited[t] >= timeout[t]
    /\ response_queue' = Requeue(response_queue, deferred[t])
    /\ timedOut' = timedOut \cup {rid[t]}
    /\ Raise(t, "TimeoutError")
    /\ UNCHANGED <<process, request_id, initialized, elapsed, ctx, tmp, rid,
                   timeout, waited, deferred, result, childVars, reader,
                   closeVars, allocated, arrived, eofWaiters,
                   delivered, timeVars, otherVars>>

\* response_queue.get returned the awaited message (lines 201-206).
wait_for_response_match(t) ==
    /\ pc[t] = "wait"
    /\ waited[t] < timeout[t]
    /\ response_queue # <<>>
    /\ IsObject(Head(response_queue))
    /\ Matches(Head(response_queue), rid[t])
    /\ response_queue' = Requeue(Tail(response_queue), deferred[t])
    /\ result' = [result EXCEPT ![t] = Head(response_queue)]
    /\ delivered' = Append(delivered, Head(response_queue))
    /\ Return(t)
    /\ UNCHANGED <<process, request_id, elapsed, ctx, tmp, rid, timeout, waited,
                   deferred, childVars, reader, closeVars, allocated, timedOut,
                   arrived, eofWaiters, timeVars, otherVars>>

\* response_queue.get returned another message (lines 207-210).
wait_for_response_defer(t) ==
    /\ pc[t] = "wait"
    /\ waited[t] < timeout[t]
    /\ response_queue # <<>>
    /\ IsObject(Head(response_queue))
    /\ ~Matches(Head(response_queue), rid[t])
    /\ response_queue' = Tail(response_queue)
    /\ deferred' = [deferred EXCEPT ![t] = Append(deferred[t], Head(response_queue))]
    /\ UNCHANGED <<process, request_id, initialized, elapsed, pc, ctx, tmp, rid,
                   timeout, waited, outcome, result, childVars, reader,
                   closeVars, ghostVars, timeVars, otherVars>>

\* response_queue.get returned a value that is not a dict: response.get
\* (line 202) raises AttributeError, which no except clause of the loop
\* catches; the finally clause runs and the value itself is lost.
wait_for_response_not_object(t) ==
    /\ pc[t] = "wait"
    /\ waited[t] < timeout[t]
    /\ response_queue # <<>>
    /\ ~IsObject(Head(response_queue))
    /\ response_queue' = Requeue(Tail(response_queue), deferred[t])
    /\ Raise(t, "AttributeError")
    /\ UNCHANGED <<process, request_id, initialized, elapsed, ctx, tmp, rid,
                   timeout, waited, deferred, result, childVars, reader,
                   closeVars, ghostVars, timeVars, otherVars>>

\* ---------------------------------------------------------------- call_tool
\* The number of _next_id calls begun so far.
Begun ==
    Len(allocated) + Cardinality({t \in Threads : pc[t] \in {"id_load", "id_store", "id_ret"}})

\* call_tool that brings a closed client back before it sends.
call_tool_restart(t, T) ==
    /\ pc[t] = "idle"
    /\ Begun < MaxId
    /\ process' = "Popen"
    /\ ctx' = [ctx EXCEPT ![t] = "call"]
    /\ timeout' = [timeout EXCEPT ![t] = T]
    /\ outcome' = [outcome EXCEPT ![t] = "none"]
    /\ result' = [result EXCEPT ![t] = NoMsg]
    /\ arrived' = [arrived EXCEPT ![t] = FALSE]
    /\ pc' = [pc EXCEPT ![t] = "id_load"]
    /\ UNCHANGED <<request_id, initialized, response_queue, elapsed, tmp, rid,
                   waited, deferred, childVars, reader, closeVars, allocated,
                   timedOut, eofWaiters, delivered, timeVars, otherVars>>

\* A caller invokes call_tool(..., timeout=T) on the constructed client.
call_tool(t, T) ==
    /\ pc[t] = "idle"
    /\ Begun < MaxId
    /\ ctx' = [ctx EXCEPT ![t] = "call"]
    /\ timeout' = [timeout EXCEPT ![t] = T]
    /\ outcome' = [outcome EXCEPT ![t] = "none"]
    /\ result' = [result EXCEPT ![t] = NoMsg]
    /\ arrived' = [arrived EXCEPT ![t] = FALSE]
    /\ pc' = [pc EXCEPT ![t] = "id_load"]
    /\ UNCHANGED <<clientVars, tmp, rid, waited, deferred, childVars, reader,
                   closeVars, allocated, timedOut, eofWaiters,
                   delivered, timeVars, otherVars>>

\* Lines 242-253 with the test "is not None" left out.
call_tool_result_nonull(r) ==
    IF r.error.kind # "absent"
    THEN [keys |-> {"success", "message", "error"}, success |-> FALSE,
          message |-> IF r.error.message = "absent" THEN "Unknown error"
                      ELSE r.error.message,
          result |-> "absent", error |-> r.error]
    ELSE [keys |-> {"success", "result", "message"}, success |-> TRUE,
          message |-> "Success",
          result |-> IF r.result = "absent" THEN "{}" ELSE r.result,
          error |-> NoError]

\* Lines 242-253: what call_tool returns for the response r.
call_tool_result(r) ==
    IF r.error.kind \notin {"absent", "null"}
    THEN [keys |-> {"success", "message", "error"}, success |-> FALSE,
          message |-> IF r.error.message = "absent" THEN "Unknown error"
                      ELSE r.error.message,
          result |-> "absent", error |-> r.error]
    ELSE [keys |-> {"success", "result", "message"}, success |-> TRUE,
          message |-> "Success",
          result |-> IF r.result = "absent" THEN "{}" ELSE r.result,
          error |-> NoError]

\* call_tool returns for the response its wait handed it.
call_tool_return ==
    /\ response # NoResponse
    /\ returned = NoReturn
    /\ returned' = call_tool_result(response)
    /\ UNCHANGED <<clientAll, descendant, mcVars, wcVars, tbVars,
                   response, runVars, mainVars, wrapVars>>

\* The next call_tool has its response.
call_tool_response ==
    /\ returned # NoReturn
    /\ response' \in Responses
    /\ returned' = NoReturn
    /\ UNCHANGED <<clientAll, descendant, mcVars, wcVars, tbVars,
                   runVars, mainVars, wrapVars>>

\* -------------------------------------------------------------------- close
\* Line 257: if self.process.  A closed client returns at once.
close_begin(t) ==
    /\ pc[t] = "idle"
    /\ closes < MaxCloses
    /\ ctx' = [ctx EXCEPT ![t] = "close"]
    /\ outcome' = [outcome EXCEPT ![t] = IF process = "None" THEN "ok" ELSE "none"]
    /\ pc' = [pc EXCEPT ![t] = IF process = "None" THEN "idle" ELSE "close_term"]
    /\ closes' = IF process = "None" THEN closes + 1 ELSE closes
    /\ UNCHANGED <<clientVars, tmp, rid, timeout, waited, deferred, result,
                   childVars, reader, signals, ghostVars, timeVars, otherVars>>

\* Line 260: terminate() signals the child unless it is known to have exited.
close_terminate(t) ==
    /\ pc[t] = "close_term"
    /\ signals' = IF child = "exited" THEN signals ELSE Append(signals, "SIGTERM")
    /\ pc' = [pc EXCEPT ![t] = "close_wait"]
    /\ waited' = [waited EXCEPT ![t] = 0]
    /\ UNCHANGED <<clientVars, ctx, tmp, rid, timeout, deferred, outcome,
                   result, childVars, reader, closes, ghostVars, timeVars, otherVars>>

\* Line 261: self.process.wait(timeout=5) goes on while the child runs.
close_wait_tick(t) ==
    /\ pc[t] = "close_wait"
    /\ child # "exited"
    /\ waited[t] < close_grace
    /\ waited' = [waited EXCEPT ![t] = waited[t] + TickStep]
    /\ UNCHANGED <<clientVars, pc, ctx, tmp, rid, timeout, deferred, outcome,
                   result, childVars, reader, closeVars, ghostVars, timeVars,
                   otherVars>>

\* close() without the finally clause that forgets the process.
close_wait_exited_keep(t) ==
    /\ pc[t] = "close_wait"
    /\ child = "exited"
    /\ closes' = closes + 1
    /\ outcome' = [outcome EXCEPT ![t] = "ok"]
    /\ pc' = [pc EXCEPT ![t] = "idle"]
    /\ UNCHANGED <<clientVars, ctx, tmp, rid, timeout, waited, deferred, result,
                   childVars, reader, signals, ghostVars, timeVars, otherVars>>

\* Line 261 returns: the child exited within the grace period.  Line 271.
close_wait_exited(t) ==
    /\ pc[t] = "close_wait"
    /\ child = "exited"
    /\ process' = "None"
    /\ closes' = closes + 1
    /\ outcome' = [outcome EXCEPT ![t] = "ok"]
    /\ pc' = [pc EXCEPT ![t] = "idle"]
    /\ UNCHANGED <<request_id, initialized, response_queue, elapsed, ctx, tmp,
                   rid, timeout, waited, deferred, result, childVars, reader,
                   signals, ghostVars, timeVars, otherVars>>

\* Line 260 raises (the signal cannot be sent): caught at line 268.  Line 271.
close_terminate_fails(t) ==
    /\ pc[t] = "close_term"
    /\ child # "exited"
    /\ process' = "None"
    /\ closes' = closes + 1
    /\ outcome' = [outcome EXCEPT ![t] = "ok"]
    /\ pc' = [pc EXCEPT ![t] = "idle"]
    /\ UNCHANGED <<request_id, initialized, response_queue, elapsed, ctx, tmp,
                   rid, timeout, waited, deferred, result, childVars, reader,
                   signals, ghostVars, timeVars, otherVars>>

\* What os.killpg(os.getpgid(pid), SIGKILL) can raise.
KillErrors == {"ProcessLookupError", "PermissionError"}

\* close_kill_fails without the finally clause.
close_kill_fails_keep(t, e) ==
    /\ pc[t] = "close_wait"
    /\ child # "exited"
    /\ waited[t] >= close_grace
    /\ child' = IF e = "ProcessLookupError" THEN "exited" ELSE child
    /\ closes' = closes + 1
    /\ outcome' = [outcome EXCEPT ![t] = IF e = "ProcessLookupError" THEN "ok" ELSE e]
    /\ pc' = [pc EXCEPT ![t] = "idle"]
    /\ UNCHANGED <<clientVars, ctx, tmp, rid, timeout, waited, deferred, result,
                   sent, answered, stdout, wrote, reader, signals, ghostVars,
                   timeVars, otherVars>>

\* Line 265 raises.  ProcessLookupError (the child is gone by now) is passed
\* over (lines 266-267); any other error leaves close().  Line 271 either way.
close_kill_fails(t, e) ==
    /\ pc[t] = "close_wait"
    /\ child # "exited"
    /\ waited[t] >= close_grace
    /\ child' = IF e = "ProcessLookupError" THEN "exited" ELSE child
    /\ process' = "None"
    /\ closes' = closes + 1
    /\ outcome' = [outcome EXCEPT ![t] = IF e = "ProcessLookupError" THEN "ok" ELSE e]
    /\ pc' = [pc EXCEPT ![t] = "idle"]
    /\ UNCHANGED <<request_id, initialized, response_queue, elapsed, ctx, tmp,
                   rid, timeout, waited, deferred, result, sent, answered,
                   stdout, wrote, reader, signals, ghostVars, timeVars,
                   otherVars>>

\* The kill path of close() without the finally clause.
close_kill_keep(t) ==
    /\ pc[t] = "close_wait"
    /\ child # "exited"
    /\ waited[t] >= close_grace
    /\ signals' = Append(signals, "SIGKILL")
    /\ child' = "exited"
    /\ descendant' = IF descendant = "running" THEN "exited" ELSE descendant
    /\ closes' = closes + 1
    /\ outcome' = [outcome EXCEPT ![t] = "ok"]
    /\ pc' = [pc EXCEPT ![t] = "idle"]
    /\ UNCHANGED <<clientVars, ctx, tmp, rid, timeout, waited, deferred, result,
                   sent, answered, stdout, wrote, reader, ghostVars, timeVars,
                   toolVars>>

\* close() that kills the process group without waiting for the grace period.
close_kill_early(t) ==
    /\ pc[t] = "close_wait"
    /\ child # "exited"
    /\ signals' = Append(signals, "SIGKILL")
    /\ child' = "exited"
    /\ descendant' = IF descendant = "running" THEN "exited" ELSE descendant
    /\ process' = "None"
    /\ closes' = closes + 1
    /\ outcome' = [outcome EXCEPT ![t] = "ok"]
    /\ pc' = [pc EXCEPT ![t] = "idle"]
    /\ UNCHANGED <<request_id, initialized, response_queue, elapsed, ctx, tmp,
                   rid, timeout, waited, deferred, result, sent, answered,
                   stdout, wrote, reader, ghostVars, timeVars, toolVars>>

\* Line 262: TimeoutExpired; the process group is killed (line 265).  Line 271.
close_kill(t) ==
    /\ pc[t] = "close_wait"
    /\ child # "exited"
    /\ waited[t] >= close_grace
    /\ signals' = Append(signals, "SIGKILL")
    /\ child' = "exited"
    /\ descendant' = IF descendant = "running" THEN "exited" ELSE descendant
    /\ process' = "None"
    /\ closes' = closes + 1
    /\ outcome' = [outcome EXCEPT ![t] = "ok"]
    /\ pc' = [pc EXCEPT ![t] = "idle"]
    /\ UNCHANGED <<request_id, initialized, response_queue, elapsed, ctx, tmp,
                   rid, timeout, waited, deferred, result, sent, answered,
                   stdout, wrote, reader, ghostVars, timeVars, toolVars>>

\* ------------------------------------------------------- the child's group
\* Popen starts the child with preexec_fn=os.setsid (line 71), so the child
\* leads a process group of its own and what it spawns is in that group.
\* The child is "dotnet run" (line 51), which starts the server as a process
\* of its own.
child_spawn ==
    /\ child # "exited"
    /\ descendant = "none"
    /\ descendant' = "running"
    /\ UNCHANGED <<clientAll, toolVars>>

\* The descendant ends, by itself or because its parent is gone.
descendant_exit ==
    /\ descendant = "running"
    /\ descendant' = "exited"
    /\ UNCHANGED <<clientAll, toolVars>>

\* --------------------------------------------------------------- the child
\* The server, an external process: it becomes ready, answers the requests it
\* was sent in any order or not at all, and may exit at any time.
child_ready ==
    /\ child = "starting"
    /\ wall >= readyDelay
    /\ child' = "ready"
    /\ UNCHANGED <<clientVars, threadVars, sent, answered, stdout, wrote, reader,
                   closeVars, ghostVars, timeVars, otherVars>>

child_respond(i) ==
    /\ child = "ready"
    /\ i \in (1..Len(sent)) \ answered
    /\ Len(sent) <= MaxId
    /\ answered' = answered \cup {i}
    /\ stdout' = Append(stdout, [id |-> sent[i].id, to |-> sent[i].by, kind |-> "result"])
    /\ wrote' = Append(wrote, sent[i].id)
    /\ UNCHANGED <<clientVars, threadVars, child, sent, reader, closeVars,
                   ghostVars, timeVars, otherVars>>

\* The child answers a request with an error response, or with a result
\* that names a project file or a build directory.
child_respond_with(i, k) ==
    /\ child = "ready"
    /\ i \in (1..Len(sent)) \ answered
    /\ Len(sent) <= MaxId
    /\ answered' = answered \cup {i}
    /\ stdout' = Append(stdout, [id |-> sent[i].id, to |-> sent[i].by, kind |-> k])
    /\ wrote' = Append(wrote, sent[i].id)
    /\ UNCHANGED <<clientVars, threadVars, child, sent, reader, closeVars,
                   ghostVars, timeVars, otherVars>>

\* Notifications the client holds or is about to read.
Notes(q) == Cardinality({i \in 1..Len(q) : q[i].kind = "notification"})

\* The child writes a line that answers no request.
child_write(k) ==
    /\ child # "exited"
    /\ Len(stdout) < MaxLines
    /\ k = "notification" =>
          Notes(stdout) + Notes(response_queue)
            + Notes(deferred[Main]) + Notes(deferred[Other]) < MaxNotes
    /\ stdout' = Append(stdout, [id |-> NoId, to |-> "nobody", kind |-> k])
    /\ UNCHANGED <<clientVars, threadVars, child, sent, answered, wrote, reader,
                   closeVars, ghostVars, timeVars, otherVars>>

child_exit ==
    /\ child # "exited"
    /\ child' = "exited"
    /\ UNCHANGED <<clientVars, threadVars, sent, answered, stdout, wrote, reader,
                   closeVars, ghostVars, timeVars, otherVars>>

\* ------------------------------------------------------------- _read_stdout
\* Lines 119-137: one line is read, decoded and queued.
read_stdout_line ==
    /\ reader = "running"
    /\ stdout # <<>>
    /\ ~Blank(Head(stdout)) /\ ~Noise(Head(stdout))
    /\ Decodes(Head(stdout)) /\ IsObject(Head(stdout))
    /\ response_queue' = Append(response_queue, Head(stdout))
    /\ stdout' = Tail(stdout)
    /\ arrived' = [t \in Threads |->
                     arrived[t] \/ (/\ pc[t] \in {"send_flush", "wait"}
                                    /\ rid[t] = Head(stdout).id
                                    /\ waited[t] < timeout[t])]
    /\ UNCHANGED <<process, request_id, initialized, elapsed, threadVars, child,
                   sent, answered, wrote, reader, closeVars, allocated,
                   timedOut, eofWaiters,
                   delivered, timeVars, otherVars>>

\* Lines 124-130 and 139-140: a blank line, a line with a build-output
\* marker or a line json.loads rejects is dropped; the loop continues.
read_stdout_skip ==
    /\ reader = "running"
    /\ stdout # <<>>
    /\ Blank(Head(stdout)) \/ Noise(Head(stdout)) \/ ~Decodes(Head(stdout))
    /\ stdout' = Tail(stdout)
    /\ UNCHANGED <<clientVars, threadVars, child, sent, answered, wrote, reader,
                   closeVars, ghostVars, timeVars, otherVars>>

\* Lines 135-137 and 141-144: the line decodes to a value that is not a
\* dict.  It is put on the queue (line 136); response.get in the print
\* (line 137) raises AttributeError, which is not a JSONDecodeError, so the
\* outer except clause catches it outside the loop and the thread exits.
read_stdout_not_object ==
    /\ reader = "running"
    /\ stdout # <<>>
    /\ ~Blank(Head(stdout)) /\ ~Noise(Head(stdout))
    /\ Decodes(Head(stdout)) /\ ~IsObject(Head(stdout))
    /\ response_queue' = Append(response_queue, Head(stdout))
    /\ stdout' = Tail(stdout)
    /\ reader' = "crashed"
    /\ UNCHANGED <<process, request_id, initialized, elapsed, threadVars, child,
                   sent, answered, wrote, closeVars, ghostVars, timeVars,
                   otherVars>>

\* Lines 120-122: readline returned nothing; the thread exits.
read_stdout_eof ==
    /\ reader = "running"
    /\ stdout = <<>>
    /\ child = "exited"
    /\ reader' = "eof"
    /\ eofWaiters' = {<<t, rid[t]>> : t \in {u \in Threads : pc[u] = "wait" /\ ctx[u] = "call"}}
    /\ UNCHANGED <<clientVars, threadVars, childVars, closeVars, allocated,
                   timedOut, arrived, delivered, timeVars, otherVars>>

\* --------------------------------------------------------------------- time
\* Time passes for the blocked waiters: TickStep, or what is left until the
\* child can become ready.
TickLength ==
    IF child = "starting" /\ wall < readyDelay /\ readyDelay - wall < TickStep
    THEN readyDelay - wall ELSE TickStep

Tick ==
    /\ \E t \in Threads : Blocked(t)
    /\ Settled
    /\ waited' = [t \in Threads |->
                    IF Blocked(t) THEN waited[t] + TickLength ELSE waited[t]]
    /\ wall' = IF pc[Main] = "wait" /\ ctx[Main] = "init"
               THEN wall + TickLength ELSE wall
    /\ UNCHANGED <<clientVars, pc, ctx, tmp, rid, timeout, deferred, outcome,
                   result, childVars, reader, closeVars, ghostVars, readyDelay,
                   otherVars>>

\* ---------------------------------------------------------- the test runners
\* run_test spawns the test script and waits for it: subprocess.run in
\* run-all-tests.py and run-multilang-tests.py, Popen and proc.wait() in
\* run-test-with-cleanup.py.
run_test_start(r) ==
    /\ runPc[r] = "idle"
    /\ runPc' = [runPc EXCEPT ![r] = "waiting"]
    /\ script' = [script EXCEPT ![r] = "running"]
    /\ runClock' = [runClock EXCEPT ![r] = 0]
    /\ UNCHANGED <<clientAll, descendant, mcVars, wcVars, tbVars,
                   normVars, mainVars, wrapVars, verdict>>

\* The test script exits with a return code, if it ever does.
script_exit(r, code) ==
    /\ script[r] = "running"
    /\ script' = [script EXCEPT ![r] = code]
    /\ UNCHANGED <<clientAll, descendant, mcVars, wcVars, tbVars,
                   normVars, mainVars, wrapVars, runPc, runClock, verdict>>

\* The wait returns because the script exited: success is returncode == 0.
run_test_return(r) ==
    /\ runPc[r] = "waiting"
    /\ script[r] \in {"exit0", "exit1"}
    /\ runPc' = [runPc EXCEPT ![r] = "returned"]
    /\ verdict' = [verdict EXCEPT ![r] = IF script[r] = "exit0" THEN "pass" ELSE "fail"]
    /\ UNCHANGED <<clientAll, descendant, mcVars, wcVars, tbVars,
                   normVars, mainVars, wrapVars, script, runClock>>

\* Only run-all-tests.py passes timeout= to subprocess.run (line 26); the
\* other two wait without one.
HasTimeout(r) == r = "run_all_tests"

\* subprocess.run raises TimeoutExpired after killing the script; run_test
\* reports failure (run-all-tests.py lines 32-33).
run_test_timeout(r) ==
    /\ HasTimeout(r)
    /\ runPc[r] = "waiting"
    /\ script[r] = "running"
    /\ runClock[r] >= run_timeout
    /\ runPc' = [runPc EXCEPT ![r] = "returned"]
    /\ script' = [script EXCEPT ![r] = "killed"]
    /\ verdict' = [verdict EXCEPT ![r] = "fail"]
    /\ UNCHANGED <<clientAll, descendant, mcVars, wcVars, tbVars,
                   normVars, mainVars, wrapVars, runClock>>

\* subprocess.run raised something else, for instance the script could not
\* be started: run_test reports failure (run-all-tests.py lines 34-35,
\* run-multilang-tests.py lines 27-29).  run-test-with-cleanup.py has no
\* such clause.
run_test_error(r) ==
    /\ r # "run_test_with_cleanup"
    /\ runPc[r] = "idle"
    /\ runPc' = [runPc EXCEPT ![r] = "returned"]
    /\ verdict' = [verdict EXCEPT ![r] = "fail"]
    /\ UNCHANGED <<clientAll, descendant, mcVars, wcVars, tbVars,
                   normVars, mainVars, wrapVars, script, runClock>>

\* Seconds pass for a runner that waits.
RunTick(r) ==
    /\ runPc[r] = "waiting"
    /\ script[r] = "running"
    /\ runClock[r] < run_timeout
    /\ runClock' = [runClock EXCEPT ![r] = runClock[r] + RunTickStep]
    /\ UNCHANGED <<clientAll, descendant, mcVars, wcVars, tbVars,
                   normVars, mainVars, wrapVars, runPc, script, verdict>>

\* ------------------------------------------------------- run-all-tests.main
\* Lines 38-55: the test scripts are collected; without any, main returns 1.
main_discover(n) ==
    /\ mainPc = "start"
    /\ test_files' = n
    /\ IF n = 0
       THEN mainPc' = "done" /\ exitCode' = 1
       ELSE mainPc' = "loop" /\ UNCHANGED exitCode
    /\ UNCHANGED <<clientAll, descendant, mcVars, wcVars, tbVars,
                   normVars, runVars, wrapVars, index, results,
                   passed, failed, started>>

\* Lines 58-62: the for loop takes the next script and calls run_test.
main_next ==
    /\ mainPc = "loop"
    /\ index < test_files
    /\ index' = index + 1
    /\ started' = Append(started, index + 1)
    /\ mainPc' = "call"
    /\ UNCHANGED <<clientAll, descendant, mcVars, wcVars, tbVars,
                   normVars, runVars, wrapVars, test_files, results,
                   passed, failed, exitCode>>

\* main with "break" after a failure: the scripts after it are not run.
main_verdict_break ==
    /\ mainPc = "call"
    /\ runPc[RunAll] = "returned"
    /\ results' = Append(results, verdict[RunAll])
    /\ passed' = IF verdict[RunAll] = "pass" THEN passed + 1 ELSE passed
    /\ failed' = IF verdict[RunAll] = "pass" THEN failed ELSE failed + 1
    /\ index' = IF verdict[RunAll] = "pass" THEN index ELSE test_files
    /\ mainPc' = "loop"
    /\ runPc' = [runPc EXCEPT ![RunAll] = "idle"]
    /\ script' = [script EXCEPT ![RunAll] = "none"]
    /\ runClock' = [runClock EXCEPT ![RunAll] = 0]
    /\ verdict' = [verdict EXCEPT ![RunAll] = "none"]
    /\ UNCHANGED <<clientAll, descendant, mcVars, wcVars, tbVars,
                   normVars, wrapVars, test_files, exitCode, started>>

\* Lines 62-70: run_test returned; the result is appended and counted.
main_verdict ==
    /\ mainPc = "call"
    /\ runPc[RunAll] = "returned"
    /\ results' = Append(results, verdict[RunAll])
    /\ passed' = IF verdict[RunAll] = "pass" THEN passed + 1 ELSE passed
    /\ failed' = IF verdict[RunAll] = "pass" THEN failed ELSE failed + 1
    /\ mainPc' = "loop"
    /\ runPc' = [runPc EXCEPT ![RunAll] = "idle"]
    /\ script' = [script EXCEPT ![RunAll] = "none"]
    /\ runClock' = [runClock EXCEPT ![RunAll] = 0]
    /\ verdict' = [verdict EXCEPT ![RunAll] = "none"]
    /\ UNCHANGED <<clientAll, descendant, mcVars, wcVars, tbVars,
                   normVars, wrapVars, test_files, index, exitCode,
                   started>>

\* Lines 72-101: the loop is over; the summary, then the return value.
main_return ==
    /\ mainPc = "loop"
    /\ index = test_files
    /\ exitCode' = IF failed = 0 THEN 0 ELSE 1
    /\ mainPc' = "done"
    /\ UNCHANGED <<clientAll, descendant, mcVars, wcVars, tbVars,
                   normVars, runVars, wrapVars, test_files, index,
                   results, passed, failed, started>>

\* --------------------------------------------------- run-test-with-cleanup
\* cleanup() (lines 17-43).  A tracked process that still runs is terminated
\* and, failing that, killed (lines 19-29).  The sweep (lines 32-43) kills
\* the processes named python3 or python whose command line has an argument
\* containing 'test-' and '.py'.
Cleanup ==
    /\ testScript' = IF testScript = "running" /\ (child_processes # {} \/ matches)
                     THEN "killed" ELSE testScript
    /\ cleanups' = cleanups + 1
    /\ procs' = Sweep(procs)

\* Another process appears in the process table, or leaves it by itself.
os_spawn(q) ==
    /\ q \notin procs
    /\ procs' = procs \cup {q}
    /\ UNCHANGED <<clientAll, descendant, mcVars, wcVars, tbVars,
                   normVars, runVars, mainVars, wrapPc,
                   child_processes, testScript, matches, cleanups>>

os_exit(q) ==
    /\ q \in procs
    /\ procs' = procs \ {q}
    /\ UNCHANGED <<clientAll, descendant, mcVars, wcVars, tbVars,
                   normVars, runVars, mainVars, wrapPc,
                   child_processes, testScript, matches, cleanups>>

\* Line 62: subprocess.Popen(cmd).  Whether the sweep would recognise the
\* new process depends on the interpreter's process name and on the
\* script's file name.
wrap_popen(m) ==
    /\ wrapPc = "start"
    /\ wrapPc' = "spawned"
    /\ testScript' = "running"
    /\ matches' = m
    /\ UNCHANGED <<clientAll, descendant, mcVars, wcVars, tbVars,
                   normVars, runVars, mainVars, child_processes,
                   cleanups, procs>>

\* Line 63: child_processes.append(proc); then proc.wait() is entered.
wrap_append ==
    /\ wrapPc = "spawned"
    /\ child_processes' = {"proc"}
    /\ wrapPc' = "waiting"
    /\ UNCHANGED <<clientAll, descendant, mcVars, wcVars, tbVars,
                   normVars, runVars, mainVars, testScript, matches,
                   cleanups, procs>>

\* The test script ends by itself.
wrap_script_exit ==
    /\ testScript = "running"
    /\ testScript' = "exited"
    /\ UNCHANGED <<clientAll, descendant, mcVars, wcVars, tbVars,
                   normVars, runVars, mainVars, wrapPc,
                   child_processes, matches, cleanups, procs>>

\* Lines 66-75: proc.wait() returns; the finally clause untracks the process.
wrap_wait_return ==
    /\ wrapPc = "waiting"
    /\ testScript # "running"
    /\ child_processes' = {}
    /\ wrapPc' = "returned"
    /\ UNCHANGED <<clientAll, descendant, mcVars, wcVars, tbVars,
                   normVars, runVars, mainVars, testScript, matches,
                   cleanups, procs>>

\* Line 91: cleanup() after run_test; line 92: sys.exit(exit_code).
wrap_cleanup ==
    /\ wrapPc = "returned"
    /\ Cleanup
    /\ wrapPc' = "exiting"
    /\ UNCHANGED <<clientAll, descendant, mcVars, wcVars, tbVars,
                   normVars, runVars, mainVars, child_processes,
                   matches>>

\* Lines 49-52: SIGINT or SIGTERM arrives once the script was spawned; the
\* handler runs between two instructions of the main thread, calls cleanup()
\* and sys.exit(1).  SystemExit unwinds run_test, whose finally clause
\* (lines 72-75) untracks the process when wait() was entered.
wrap_signal ==
    /\ wrapPc \in {"spawned", "waiting", "returned"}
    /\ Cleanup
    /\ child_processes' = {}
    /\ wrapPc' = "exiting"
    /\ UNCHANGED <<clientAll, descendant, mcVars, wcVars, tbVars,
                   normVars, runVars, mainVars, matches>>

\* Line 46: the interpreter exits and runs the atexit hook.
wrap_atexit ==
    /\ wrapPc = "exiting"
    /\ Cleanup
    /\ wrapPc' = "exited"
    /\ UNCHANGED <<clientAll, descendant, mcVars, wcVars, tbVars,
                   normVars, runVars, mainVars, child_processes,
                   matches>>

\* -------------------------------------- protocol/test-client.py McpTestClient
otherThanMc == <<clientAll, descendant, normVars, runVars, mainVars, wrapVars,
                 wcVars, tbVars>>

\* Line 45: the line starts with '/' or mentions 'warning CS' or '.csproj'.
McNoise(line) == line.kind \in {"build", "result_path"}

\* Lines 59-74: the id is allocated and the request written and flushed; on
\* a server that has exited the write raises BrokenPipeError.
mc_send_request ==
    /\ mcPc = "idle"
    /\ mcRequestId < MaxId
    /\ mcRequestId' = mcRequestId + 1
    /\ IF mcServer = "exited"
       THEN UNCHANGED <<mcPending, mcPc, mcClock>>
       ELSE /\ mcPending' = mcPending \cup {mcRequestId + 1}
            /\ mcPc' = "get"
            /\ mcClock' = 0
    /\ UNCHANGED <<otherThanMc, mcServer, mcStdout, mcQueue, mcReturned>>

\* The server answers one of the requests it has, when it does.
mc_server_respond(i, k) ==
    /\ mcServer = "running"
    /\ i \in mcPending
    /\ mcPending' = mcPending \ {i}
    /\ mcStdout' = Append(mcStdout, [id |-> i, kind |-> k])
    /\ UNCHANGED <<otherThanMc, mcRequestId, mcServer, mcQueue, mcPc, mcClock,
                   mcReturned>>

mc_server_exit ==
    /\ mcServer = "running"
    /\ mcServer' = "exited"
    /\ UNCHANGED <<otherThanMc, mcRequestId, mcPending, mcStdout, mcQueue, mcPc,
                   mcClock, mcReturned>>

\* Lines 40-52: the reader thread takes a line; build output is skipped,
\* what decodes is queued.
mc_read_stdout ==
    /\ mcStdout # <<>>
    /\ mcStdout' = Tail(mcStdout)
    /\ mcQueue' = IF Blank(Head(mcStdout)) \/ McNoise(Head(mcStdout))
                       \/ ~Decodes(Head(mcStdout))
                  THEN mcQueue
                  ELSE Append(mcQueue, Head(mcStdout))
    /\ UNCHANGED <<otherThanMc, mcRequestId, mcServer, mcPending, mcPc, mcClock,
                   mcReturned>>

\* Lines 77-79: response_queue.get(timeout=5) returns the first message of
\* the queue, which send_request returns.
mc_get_response ==
    /\ mcPc = "get"
    /\ mcQueue # <<>>
    /\ mcReturned' = Head(mcQueue)
    /\ mcQueue' = Tail(mcQueue)
    /\ mcPc' = "idle"
    /\ UNCHANGED <<otherThanMc, mcRequestId, mcServer, mcPending, mcStdout,
                   mcClock>>

\* Time passes in response_queue.get while there is nothing to take.
mc_tick ==
    /\ mcPc = "get"
    /\ mcQueue = <<>>
    /\ mcStdout = <<>>
    /\ mcClock < mc_timeout
    /\ mcClock' = mcClock + TickStep
    /\ UNCHANGED <<otherThanMc, mcRequestId, mcServer, mcPending, mcStdout,
                   mcQueue, mcPc, mcReturned>>

\* Lines 80-82: queue.Empty after 5 s; send_request returns None.
mc_get_timeout ==
    /\ mcPc = "get"
    /\ mcQueue = <<>>
    /\ mcClock >= mc_timeout
    /\ mcReturned' = McNone
    /\ mcPc' = "idle"
    /\ UNCHANGED <<otherThanMc, mcRequestId, mcServer, mcPending, mcStdout,
                   mcQueue, mcClock>>

\* ------------------------------ test-wildcard-infinite.py, from line 106 on
otherThanWc == <<clientAll, descendant, normVars, runVars, mainVars, wrapVars,
                 mcVars, tbVars>>

\* The server answers the next of the three requests it was sent, with a
\* result or an error.
wc_server_respond(k) ==
    /\ wcServer = "running"
    /\ wcAnswered < Len(Requests)
    /\ wcAnswered' = wcAnswered + 1
    /\ wcStdout' = Append(wcStdout, [to |-> Requests[wcAnswered + 1], kind |-> k])
    /\ UNCHANGED <<otherThanWc, wcServer, response_lines, wcThread, wcPc,
                   wcClock, wcResult>>

\* The server writes a line that is not a response.
wc_server_log ==
    /\ wcServer = "running"
    /\ Len(wcStdout) + Len(response_lines) < MaxLines
    /\ wcStdout' = Append(wcStdout, [to |-> "nobody", kind |-> "text"])
    /\ UNCHANGED <<otherThanWc, wcServer, wcAnswered, response_lines, wcThread,
                   wcPc, wcClock, wcResult>>

wc_server_exit ==
    /\ wcServer = "running"
    /\ wcServer' = "exited"
    /\ UNCHANGED <<otherThanWc, wcAnswered, wcStdout, response_lines, wcThread,
                   wcPc, wcClock, wcResult>>

\* Line 103: the line contains '"result"' or '"error"'.
Terminal(line) == line.kind \in {"result", "error"}

\* Lines 98-104: read_output takes a line, keeps it and returns if it holds
\* a result or an error.  At end of stream readline returns '' and the loop
\* goes on.
read_output ==
    /\ wcThread = "reading"
    /\ wcStdout # <<>>
    /\ wcStdout' = Tail(wcStdout)
    /\ response_lines' = Append(response_lines, Head(wcStdout))
    /\ wcThread' = IF Terminal(Head(wcStdout)) THEN "returned" ELSE "reading"
    /\ UNCHANGED <<otherThanWc, wcServer, wcAnswered, wcPc, wcClock, wcResult>>

\* Time passes in thread.join(timeout).
wc_tick ==
    /\ wcPc = "join"
    /\ wcThread = "reading"
    /\ wcStdout = <<>>
    /\ wcClock < wc_timeout
    /\ wcClock' = wcClock + TickStep
    /\ UNCHANGED <<otherThanWc, wcServer, wcAnswered, wcStdout, response_lines,
                   wcThread, wcPc, wcResult>>

\* Lines 111-114 and 135-137: the thread is still alive after the timeout.
wc_join_timeout ==
    /\ wcPc = "join"
    /\ wcThread = "reading"
    /\ wcClock >= wc_timeout
    /\ wcResult' = "False"
    /\ wcPc' = "done"
    /\ wcServer' = "exited"
    /\ UNCHANGED <<otherThanWc, wcAnswered, wcStdout, response_lines, wcThread,
                   wcClock>>

\* Lines 115-137: the thread has returned; True is returned whatever the
\* collected lines hold (lines 129 and 133).
wc_join_returned ==
    /\ wcPc = "join"
    /\ wcThread = "returned"
    /\ wcResult' = "True"
    /\ wcPc' = "done"
    /\ wcServer' = "exited"
    /\ UNCHANGED <<otherThanWc, wcAnswered, wcStdout, response_lines, wcThread,
                   wcClock>>

\* ------------------------------------------------ test_base.py ToolTestBase
otherThanTb == <<clientAll, descendant, normVars, runVars, mainVars, wrapVars,
                 mcVars, wcVars>>

\* Lines 18-22, also through __enter__ (line 58): a TestClient is
\* constructed and assigned to self.client.
tb_setup ==
    /\ tbCreated < MaxClients
    /\ tbCreated' = tbCreated + 1
    /\ tbClient' = tbCreated + 1
    /\ tbOpen' = tbOpen \cup {tbCreated + 1}
    /\ tbOutcome' = "ok"
    /\ UNCHANGED <<otherThanTb, tbContacted>>

\* Line 22 raises: the constructor of TestClient failed; self.client keeps
\* its value.
tb_setup_fails ==
    /\ tbCreated < MaxClients
    /\ tbOutcome' = "RuntimeError"
    /\ UNCHANGED <<otherThanTb, tbClient, tbCreated, tbOpen, tbContacted>>

\* Line 27 raises: close() let an error of the kill through (test_client.py
\* lines 263-267), after forgetting its process; line 28 is not reached.
tb_teardown_fails ==
    /\ tbClient \in tbOpen
    /\ tbOpen' = tbOpen \ {tbClient}
    /\ tbOutcome' = "PermissionError"
    /\ UNCHANGED <<otherThanTb, tbClient, tbCreated, tbContacted>>

\* Lines 24-28, also through __exit__ (line 62).
tb_teardown ==
    /\ tbOpen' = tbOpen \ {tbClient}
    /\ tbClient' = 0
    /\ tbOutcome' = "ok"
    /\ UNCHANGED <<otherThanTb, tbCreated, tbContacted>>

\* Lines 30-40: call_tool and load_workspace.  A client that was closed
\* raises AttributeError before it writes anything (test_client.py line 181).
tb_call_tool ==
    /\ tbContacted < MaxId
    /\ IF tbClient = 0
       THEN tbOutcome' = "RuntimeError" /\ UNCHANGED tbContacted
       ELSE IF tbClient \notin tbOpen
       THEN tbOutcome' = "AttributeError" /\ UNCHANGED tbContacted
       ELSE tbOutcome' = "called" /\ tbContacted' = tbContacted + 1
    /\ UNCHANGED <<otherThanTb, tbClient, tbCreated, tbOpen>>

\* ------------------------------------------------------------ specifications
Environment ==
    \/ \E i \in 1..Len(sent) : child_respond(i)
    \/ child_exit
    \/ read_stdout_line
    \/ read_stdout_eof
    \/ Tick

\* The steps of a call once call_tool was invoked.
CallSteps(t) ==
    \/ next_id_load(t)
    \/ next_id_store(t)
    \/ next_id_return(t)
    \/ send_request_poll(t)
    \/ send_request_write(t)
    \/ send_request_flush(t)
    \/ wait_for_response_timeout(t)
    \/ wait_for_response_match(t)
    \/ wait_for_response_defer(t)

Operations(t) ==
    \/ CallSteps(t)
    \/ \E T \in CallTimeouts : call_tool(t, T)

\* One client from its constructor to close(), used by one thread.
Next ==
    \/ start_server_top(Main)
    \/ start_server_sleep(Main)
    \/ Operations(Main)
    \/ close_begin(Main)
    \/ close_terminate(Main)
    \/ close_wait_tick(Main)
    \/ close_wait_exited(Main)
    \/ close_kill(Main)
    \/ close_terminate_fails(Main)
    \/ \E e \in KillErrors : close_kill_fails(Main, e)
    \/ child_ready
    \/ Environment

Spec == Init /\ [][Next]_vars

\* The client as its constructor leaves it when the first initialize attempt
\* was answered at once: the state from which several threads share it.
ClientReady ==
    /\ process = "Popen"
    /\ request_id = 1
    /\ initialized = TRUE
    /\ response_queue = <<>>
    /\ elapsed = init_after
    /\ pc = [t \in Threads |-> "idle"]
    /\ ctx = [t \in Threads |-> "init"]
    /\ tmp = [t \in Threads |-> 0]
    /\ rid = [t \in Threads |-> IF t = Main THEN 1 ELSE 0]
    /\ timeout = [t \in Threads |-> default_timeout]
    /\ waited = [t \in Threads |-> 0]
    /\ deferred = [t \in Threads |-> <<>>]
    /\ outcome = [t \in Threads |-> IF t = Main THEN "ok" ELSE "none"]
    /\ result = [t \in Threads |-> IF t = Main THEN [id |-> 1, to |-> Main, kind |-> "result"] ELSE NoMsg]
    /\ child = "ready"
    /\ sent = <<[id |-> 1, by |-> Main]>>
    /\ answered = {1}
    /\ stdout = <<>>
    /\ reader = "running"
    /\ signals = <<>>
    /\ closes = 0
    /\ allocated = <<1>>
    /\ timedOut = {}
    /\ wrote = <<1>>
    /\ arrived = [t \in Threads |-> t = Main]
    /\ eofWaiters = {}
    /\ delivered = <<[id |-> 1, to |-> Main, kind |-> "result"]>>
    /\ wall = init_after
    /\ readyDelay = 0

InitReady ==
    /\ ClientReady
    /\ response = NoResponse
    /\ returned = NoReturn
    /\ RunnersIdle

\* Several threads calling call_tool on one constructed client, all with the
\* same timeout, as the callers that leave it at its default do.
NextConc ==
    \/ \E t \in Threads : CallSteps(t)
    \/ \E t \in Threads : call_tool(t, SharedTimeout)
    \/ Environment

SpecConc == InitReady /\ [][NextConc]_vars

\* The constructor alone, every thread getting its turn.  The child is under
\* no obligation.
StartMain ==
    \/ start_server_top(Main)
    \/ start_server_sleep(Main)
    \/ next_id_load(Main)
    \/ next_id_store(Main)
    \/ next_id_return(Main)
    \/ send_request_poll(Main)
    \/ send_request_write(Main)
    \/ send_request_flush(Main)
    \/ wait_for_response_timeout(Main)
    \/ wait_for_response_match(Main)
    \/ wait_for_response_defer(Main)

StartReader == read_stdout_line \/ read_stdout_eof

NextStart ==
    \/ StartMain
    \/ child_ready
    \/ \E i \in 1..Len(sent) : child_respond(i)
    \/ child_exit
    \/ StartReader
    \/ Tick

SpecStart ==
    /\ Init
    /\ [][NextStart]_vars
    /\ WF_vars(StartMain)
    /\ WF_vars(StartReader)
    /\ WF_vars(Tick)

\* The constructor against a child that stays alive, becomes ready readyDelay
\* after the loop began and from then on answers what it finds on its stdin
\* before 0.2 s pass.
ChildSettled ==
    /\ ~(child = "starting" /\ wall >= readyDelay)
    /\ ~(child = "ready" /\ Len(sent) <= MaxId /\ (1..Len(sent)) \ answered # {})

LiveSleep == ChildSettled /\ start_server_sleep(Main)

LiveMain ==
    \/ start_server_top(Main)
    \/ LiveSleep
    \/ next_id_load(Main)
    \/ next_id_store(Main)
    \/ next_id_return(Main)
    \/ send_request_poll(Main)
    \/ send_request_write(Main)
    \/ send_request_flush(Main)
    \/ wait_for_response_timeout(Main)
    \/ wait_for_response_match(Main)
    \/ wait_for_response_defer(Main)

LiveChild == child_ready \/ \E i \in 1..Len(sent) : child_respond(i)

LiveTick == ChildSettled /\ Tick

NextLive ==
    \/ LiveMain
    \/ LiveChild
    \/ read_stdout_line
    \/ LiveTick

InitLive == \E delay \in 0..MaxReadyDelay : InitWith(delay)

SpecLive ==
    /\ InitLive
    /\ [][NextLive]_vars
    /\ WF_vars(LiveMain)
    /\ WF_vars(LiveChild)
    /\ WF_vars(read_stdout_line)
    /\ WF_vars(LiveTick)

\* One thread calling call_tool on the constructed client, the waiter, the
\* reader and the clock getting their turn.  The caller and the child are
\* under no obligation.
WaitStep(t) ==
    \/ wait_for_response_timeout(t)
    \/ wait_for_response_match(t)
    \/ wait_for_response_defer(t)

NextWait ==
    \/ Operations(Main)
    \/ Environment

SpecWait ==
    /\ InitReady
    /\ [][NextWait]_vars
    /\ WF_vars(WaitStep(Main))
    /\ WF_vars(StartReader)
    /\ WF_vars(Tick)

\* call_tool from the point where _wait_for_response has returned, for every
\* shape of response, call after call.
InitNorm ==
    /\ ClientReady
    /\ response \in Responses
    /\ returned = NoReturn
    /\ RunnersIdle

NextNorm ==
    \/ call_tool_return
    \/ call_tool_response

SpecNorm == InitNorm /\ [][NextNorm]_vars

\* The three runners, each running one test script that may exit with either
\* code or never.  The runners and their clocks get their turn; the script is
\* under no obligation.
RunnerStep(r) ==
    \/ run_test_start(r)
    \/ run_test_error(r)
    \/ run_test_return(r)
    \/ run_test_timeout(r)

NextRun ==
    \/ \E r \in Runners : RunnerStep(r)
    \/ \E r \in Runners : \E code \in {"exit0", "exit1"} : script_exit(r, code)
    \/ \E r \in Runners : RunTick(r)

SpecRun ==
    /\ InitReady
    /\ [][NextRun]_vars
    /\ \A r \in Runners : WF_vars(RunnerStep(r)) /\ WF_vars(RunTick(r))

\* One thread calling call_tool on the constructed client while the child
\* writes whatever a server process can write on its stdout: responses of
\* every kind, notifications, build output, blank lines, text, bare values.
ReaderStep ==
    \/ read_stdout_line
    \/ read_stdout_skip
    \/ read_stdout_not_object
    \/ read_stdout_eof

NextRead ==
    \/ Operations(Main)
    \/ wait_for_response_not_object(Main)
    \/ \E i \in 1..Len(sent) : \E k \in ResponseKinds : child_respond_with(i, k)
    \/ \E k \in OtherKinds : child_write(k)
    \/ child_exit
    \/ ReaderStep
    \/ Tick

SpecRead == InitReady /\ [][NextRead]_vars

\* The constructor against a child that may answer initialize with an error.
NextShake ==
    \/ StartMain
    \/ child_ready
    \/ \E i \in 1..Len(sent) : \E k \in {"result", "error"} : child_respond_with(i, k)
    \/ child_exit
    \/ StartReader
    \/ Tick

SpecShake == Init /\ [][NextShake]_vars

\* run-all-tests.py over up to MaxScripts test scripts, each of which may
\* pass, fail, hang or fail to start, and run-test-with-cleanup.py around one
\* test script, with a signal at any moment.  The two run independently.
MainStep ==
    \/ \E n \in 0..MaxScripts : main_discover(n)
    \/ main_next
    \/ mainPc = "call" /\ run_test_start(RunAll)
    \/ mainPc = "call" /\ run_test_error(RunAll)
    \/ run_test_return(RunAll)
    \/ run_test_timeout(RunAll)
    \/ main_verdict
    \/ main_return
    \/ \E code \in {"exit0", "exit1"} : script_exit(RunAll, code)
    \/ RunTick(RunAll)

WrapStep ==
    \/ \E m \in BOOLEAN : wrap_popen(m)
    \/ wrap_append
    \/ wrap_script_exit
    \/ wrap_wait_return
    \/ wrap_cleanup
    \/ wrap_signal
    \/ wrap_atexit

NextScripts == MainStep \/ WrapStep

SpecScripts == InitReady /\ [][NextScripts]_vars

\* One thread using and closing the constructed client, whose child may
\* have spawned a process; every signal close() sends is delivered.
NextGroup ==
    \/ Operations(Main)
    \/ close_begin(Main)
    \/ close_terminate(Main)
    \/ close_wait_tick(Main)
    \/ close_wait_exited(Main)
    \/ close_kill(Main)
    \/ child_spawn
    \/ descendant_exit
    \/ Environment

SpecGroup == InitReady /\ [][NextGroup]_vars

\* run-test-with-cleanup.py while other processes come and go: a second
\* wrapper or its live test script, a test script left over from a run that
\* is over, a server left over.
NextSweep ==
    \/ WrapStep
    \/ \E q \in Others : os_spawn(q)
    \/ \E q \in Others : os_exit(q)

SpecSweep == InitReady /\ [][NextSweep]_vars

\* McpTestClient sending up to MaxId requests one after the other to a
\* server that answers when it does, in any order, or not at all.
NextMc ==
    \/ mc_send_request
    \/ \E i \in 1..MaxId : \E k \in {"result", "result_path"} : mc_server_respond(i, k)
    \/ mc_server_exit
    \/ mc_read_stdout
    \/ mc_get_response
    \/ mc_tick
    \/ mc_get_timeout

SpecMc == InitReady /\ [][NextMc]_vars

\* test_pattern_with_timeout once its three requests are written, against
\* a server that answers them in order as far as it gets.
NextWc ==
    \/ \E k \in {"result", "error"} : wc_server_respond(k)
    \/ wc_server_log
    \/ wc_server_exit
    \/ read_output
    \/ wc_tick
    \/ wc_join_timeout
    \/ wc_join_returned

SpecWc == InitReady /\ [][NextWc]_vars

\* Any sequence of ToolTestBase's methods.
NextTb ==
    \/ tb_setup
    \/ tb_setup_fails
    \/ tb_teardown
    \/ tb_teardown_fails
    \/ tb_call_tool

SpecTb == InitReady /\ [][NextTb]_vars

\* ------------------------------------------------------------------ claims
Calls == {t \in Threads : ctx[t] = "call"}
Finished(t) == ctx[t] = "call" /\ pc[t] = "idle" /\ outcome[t] # "none"
Skipped(t) == {deferred[t][i].id : i \in 1..Len(deferred[t])}

\* C1: whatever the order in which the responses arrive, a wait for id X
\* returns only a message whose id is X.
C1_ReturnsOnlyRequestedId ==
    \A t \in Threads : outcome[t] = "ok" => result[t].id = rid[t]

\* A call returned its own response after it had to pass over the response of
\* a later call.
C1_Witness ==
    \E t \in Threads :
        /\ Finished(t)
        /\ outcome[t] = "ok"
        /\ \E i \in Skipped(t) : i > rid[t]

C3_TimeoutIsolation ==
    \A t \in Threads :
        (Finished(t) /\ outcome[t] = "ok") =>
            (result[t].id = rid[t] /\ result[t].id \notin timedOut)

\* Call B returned its response after passing over the late response to the
\* timed-out call A.
C3_Witness ==
    /\ Finished(Main)
    /\ outcome[Main] = "ok"
    /\ \E a \in timedOut : a > 1 /\ a \in Skipped(Main)

\* C4: two calls issued concurrently, the child answering the later id first
\* and both responses reaching the queue before either deadline: both calls
\* return, each with the response to its own request.
C4_BothReturnOwnPayload ==
    (/\ \A t \in Threads : Finished(t) /\ arrived[t]
     /\ rid[Main] < rid[Other]
     /\ \E i, j \in 1..Len(wrote) :
            i < j /\ wrote[i] = rid[Other] /\ wrote[j] = rid[Main])
    => \A t \in Threads :
           outcome[t] = "ok" /\ result[t] = [id |-> rid[t], to |-> t, kind |-> "result"]

\* C5: a call that is blocked when the reader reaches end-of-stream ends with
\* a connection-lost failure (or with its response, if that was read before
\* the end), not with a timeout.
C5_EofEndsBlockedCall ==
    \A t \in Threads :
        (Finished(t) /\ <<t, rid[t]>> \in eofWaiters) =>
            outcome[t] \in {"ConnectionLost", "ok"}

\* C6: a call ends in TimeoutError only once its timeout has elapsed without
\* its response, it does end then, and the client stays usable: a later call
\* whose response arrives in time returns it.
C6_TimeoutThenUsable ==
    \A t \in Threads :
        /\ (pc[t] = "wait" /\ waited[t] >= timeout[t]) =>
               ENABLED wait_for_response_timeout(t)
        /\ Finished(t) =>
               /\ outcome[t] = "TimeoutError" =>
                      (waited[t] >= timeout[t] /\ ~arrived[t])
               /\ arrived[t] => (outcome[t] = "ok" /\ result[t].id = rid[t])

\* A call that the child never answered timed out and the next call returned.
C6_Witness ==
    /\ Finished(Main)
    /\ outcome[Main] = "ok"
    /\ \E i \in 1..Len(sent) :
           /\ sent[i].id \in timedOut
           /\ sent[i].id > 1
           /\ i \notin answered

\* C7: close() on a closed client sends no signal, and every close(), the
\* second one and one after the child exited on its own included, ends without
\* error with the client closed.
C7_CloseIdempotent ==
    [][/\ process = "None" => (signals' = signals /\ process' = "None")
       /\ (closes' > closes /\ (process = "None" \/ child = "exited"))
              => (process' = "None" /\ outcome'[Main] = "ok")]_vars

\* close() returned twice, the first time on a child that had exited on its
\* own.
C7_Witness ==
    /\ closes >= 2
    /\ process = "None"
    /\ pc[Main] = "idle"
    /\ outcome[Main] = "ok"
    /\ signals = <<>>

\* C8: when the child stays alive and starts answering after a delay smaller
\* than max_wait_time, the retry loop of _start_server eventually returns with
\* _initialized set.
C8_HandshakeConverges ==
    readyDelay < max_wait_time => <>(initialized /\ pc[Main] = "idle")

\* The constructor returned against a child that took all but the last 0.2 s
\* of the budget to become ready.
C8_Witness ==
    /\ readyDelay = max_wait_time - 1
    /\ initialized
    /\ pc[Main] = "idle"

\* C9: the loop checks liveness first: with the child exited it ends fatally;
\* no request is written to an exited child, and a send that finds the child
\* exited is not followed by a wait.
C9_FailFastOnDeadChild ==
    [][/\ (pc[Main] = "hs_top" /\ child = "exited" /\ pc'[Main] # "hs_top")
              => pc'[Main] = "fatal"
       /\ child = "exited" => sent' = sent
       /\ (child = "exited" /\ pc[Main] \in {"send_poll", "send_write"})
              => pc'[Main] \notin {"send_flush", "wait"}]_vars

\* The child died after an attempt was made and the startup failed before the
\* budget was used up.
C9_Witness ==
    /\ pc[Main] = "fatal"
    /\ child = "exited"
    /\ Len(sent) >= 1
    /\ elapsed < max_wait_time

MaxAttempts == (max_wait_time - init_after) \div wait_interval + 1

\* The two outcomes of _start_server: it makes at most MaxAttempts attempts and
\* either returns with _initialized set or raises, the child having exited or
\* the budget being used up.
C10_Outcomes ==
    /\ pc[Main] = "idle" => initialized
    /\ pc[Main] = "fatal" =>
           (~initialized /\ (child = "exited" \/ elapsed >= max_wait_time))
    /\ elapsed <= max_wait_time
    /\ ~initialized => Len(allocated) <= MaxAttempts

\* C10: _start_server always ends, in one of these two ways.
C10_StartServerTerminates ==
    []C10_Outcomes /\ <>(pc[Main] \in {"idle", "fatal"})

\* The budget ran out on a child that was still alive.
C10_Witness ==
    /\ pc[Main] = "fatal"
    /\ child # "exited"
    /\ elapsed >= max_wait_time
    /\ Len(allocated) = MaxAttempts

\* C11: every wait ends, whatever arrives and in whatever order: with the
\* awaited message or with TimeoutError.
C11_WaitTerminates ==
    \A t \in Threads :
        (pc[t] = "wait") ~>
            (pc[t] = "idle" /\ outcome[t] \in {"ok", "TimeoutError"})

\* A wait ended in TimeoutError after it had passed over a message that was
\* not its own.
C11_Witness ==
    \E t \in Threads :
        /\ Finished(t)
        /\ outcome[t] = "TimeoutError"
        /\ deferred[t] # <<>>

Messages == {[id |-> sent[i].id, to |-> sent[i].by, kind |-> "result"] : i \in 1..Len(sent)}
Count(q, m) == Cardinality({i \in 1..Len(q) : q[i] = m})
Held(t, m) == IF pc[t] = "wait" THEN Count(deferred[t], m) ELSE 0
Enqueued(m) ==
    Cardinality({i \in answered : sent[i].id = m.id /\ sent[i].by = m.to})
        - Count(stdout, m)

\* C12: a message the reader enqueued is on the queue, in the deferred list
\* of one waiter that is still waiting, or was returned to one caller: exactly
\* one of these, at all times.  Counted per message, as many times as the
\* reader enqueued it.
C12_MessagesConserved ==
    \A m \in Messages :
        Enqueued(m) =
            Count(response_queue, m) + Held(Main, m) + Held(Other, m)
                + Count(delivered, m)

\* A caller was given its response after another waiter had taken it off the
\* queue and put it back.
C12_Witness ==
    \E t, u \in Threads :
        /\ t # u
        /\ Finished(t) /\ outcome[t] = "ok" /\ result[t].to = t
        /\ pc[u] = "idle"
        /\ Count(deferred[u], result[t]) = 1

Written(t) == \E i \in 1..Len(sent) : sent[i].id = rid[t] /\ sent[i].by = t

\* C14: once the child has exited and its stdout has ended, the call that was
\* blocked then and every later call on the client, until it is closed, end
\* with a connection error (the blocked one with its response, had it been
\* read already); a later call is not written.
C14_TransportFailureSurfaces ==
    \A t \in Threads :
        (Finished(t) /\ process = "Popen" /\ reader = "eof") =>
            /\ <<t, rid[t]>> \in eofWaiters =>
                   \/ outcome[t] \in {"RuntimeError", "ConnectionLost"}
                   \/ outcome[t] = "ok" /\ arrived[t]
            /\ ~Written(t) => outcome[t] \in {"RuntimeError", "ConnectionLost"}

\* C15: once close() has returned, a call_tool ends at once with an error
\* (AttributeError, raised by self.process.poll() on None) and no request is
\* written.
C15_CallAfterCloseRejected ==
    [][closes >= 1 =>
          /\ sent' = sent
          /\ \A t \in Threads :
                 /\ pc'[t] # "wait"
                 /\ (ctx[t] = "call" /\ pc[t] # "idle" /\ pc'[t] = "idle")
                        => outcome'[t] = "AttributeError"]_vars

\* call_tool was invoked on a closed client and ended with the error; the
\* request it built was not written.
C15_Witness ==
    /\ closes >= 1
    /\ process = "None"
    /\ Finished(Main)
    /\ outcome[Main] = "AttributeError"
    /\ ~Written(Main)

\* C16: a closed client stays closed: no operation gives it a process again,
\* no child is started, and no call on it succeeds.
C16_NoResurrection ==
    [][process = "None" =>
          /\ process' = "None"
          /\ child' \in {child, "exited"}
          /\ \A t \in Threads :
                 (ctx'[t] = "call" /\ pc'[t] = "idle") => outcome'[t] # "ok"]_vars

\* A closed client was closed again and then called: still closed.
C16_Witness ==
    /\ closes >= 2
    /\ process = "None"
    /\ Finished(Main)
    /\ outcome[Main] = "AttributeError"
    /\ Len(allocated) >= 2

\* C17: whichever way close() ends, with or without an error, after
\* terminate or the kill failed or not, the client is closed.
C17_ClosedOnEveryPath ==
    \A t \in Threads : (ctx[t] = "close" /\ pc[t] = "idle") => process = "None"

\* close() ended with the error the kill raised, the child still running.
C17_Witness ==
    /\ ctx[Main] = "close"
    /\ pc[Main] = "idle"
    /\ outcome[Main] = "PermissionError"
    /\ child # "exited"
    /\ process = "None"

\* C18: when the startup loop ends fatally the child is not left running: it
\* has exited or was sent a signal before the error reached the caller.
C18_NoLeakOnFailedStartup ==
    pc[Main] = "fatal" => (child = "exited" \/ signals # <<>>)

\* C19: at most one thread at a time is between writing its request line and
\* the end of the flush.
C19_WritesSerialized ==
    Cardinality({t \in Threads : pc[t] = "send_flush"}) <= 1

\* C20: in each of the three runners a run_test that began ends, also when
\* the script never exits, and a script that was abandoned is reported as
\* failed.
C20_RunnerAlwaysReturns ==
    /\ \A r \in Runners : (runPc[r] = "waiting") ~> (runPc[r] = "returned")
    /\ [](\A r \in Runners : script[r] = "killed" => verdict[r] = "fail")

\* C23: a call ends in TimeoutError only if its response was not enqueued
\* while it waited; another waiter holding that response does not make it
\* time out.
C23_TimeoutOnlyWithoutResponse ==
    \A t \in Threads :
        (Finished(t) /\ outcome[t] = "TimeoutError") => ~arrived[t]

\* The messages held for nobody: late responses to calls that timed out, on
\* the queue or in the deferred list of a waiter that is still waiting.
Late(q) == Cardinality({i \in 1..Len(q) : q[i].id \in timedOut})
HeldCount ==
    Late(response_queue)
        + (IF pc[Main] = "wait" THEN Late(deferred[Main]) ELSE 0)
        + (IF pc[Other] = "wait" THEN Late(deferred[Other]) ELSE 0)

\* A capacity smaller than the number of calls that can time out.
HoldCapacity == MaxId - 2

\* C27: the messages held never exceed a fixed capacity.
C27_HoldingAreaBounded == HeldCount <= HoldCapacity

\* The ids of the queued messages appear in the order the reader decoded them.
InDecodeOrder(q) ==
    \A i, j \in 1..Len(q) :
        i < j => \E a, b \in 1..Len(wrote) :
                     a < b /\ wrote[a] = q[i].id /\ wrote[b] = q[j].id

\* C28: once no wait is in progress, the messages left on the queue are in
\* the order in which the reader decoded them.
C28_QueueKeepsDecodeOrder ==
    (\A t \in Threads : pc[t] # "wait") => InDecodeOrder(response_queue)

\* C30: an initialize attempt begins only while the time since the loop began,
\* its sleeps and its waits, is within max_wait_time, and its own timeout is
\* shorter than max_wait_time.
C30_AttemptsWithinBudget ==
    (pc[Main] = "id_load" /\ ctx[Main] = "init") =>
        (wall <= max_wait_time /\ timeout[Main] < max_wait_time)

\* C24: the stdout reader leaves its loop only at end-of-stream, that is
\* after the child has exited and every line it wrote has been read; no line
\* makes the thread exit.
C24_ReaderRunsUntilEof ==
    reader # "running" => (reader = "eof" /\ child = "exited" /\ stdout = <<>>)

\* C25: a line holding a response object with an id, when the reader takes
\* it off stdout, is put on response_queue whatever its payload mentions.
C25_ResponsesAlwaysEnqueued ==
    [][(/\ reader = "running"
        /\ stdout # <<>>
        /\ Head(stdout).kind \in ResponseKinds
        /\ stdout' = Tail(stdout))
       => response_queue' = Append(response_queue, Head(stdout))]_vars

\* C26: a message without an id is nowhere in the client: not on
\* response_queue, not in a waiter's deferred list, not returned to a caller.
C26_NotificationsDropped ==
    /\ Notes(response_queue) = 0
    /\ \A t \in Threads : Notes(deferred[t]) = 0 /\ result[t].kind # "notification"

\* C29: the client is Ready only if a success response to one of its
\* initialize requests was delivered to the handshake.
C29_ReadyOnlyOnSuccess ==
    initialized => \E i \in 1..Len(delivered) : delivered[i].kind = "result"

\* The verdicts main has recorded are all passes.
AllPass == \A i \in 1..Len(results) : results[i] = "pass"

\* Every script found so far in the loop was handed to run_test once, in
\* order, and has one verdict unless its run_test is still going on.
OncePerScript ==
    /\ started = [i \in 1..index |-> i]
    /\ passed + failed = Len(results)
    /\ Len(results) = IF mainPc = "call" THEN index - 1 ELSE index
    /\ passed = Cardinality({i \in 1..Len(results) : results[i] = "pass"})

\* C21 as stated: every script is run once and gets one verdict whatever
\* happened to the scripts before it, and main returns 0 exactly when every
\* verdict is a pass.
C21_ExitZeroIffAllPass ==
    /\ OncePerScript
    /\ mainPc = "done" => (index = test_files /\ (exitCode = 0 <=> AllPass))

\* C21 amended: every script is run once and gets one verdict whatever
\* happened to the scripts before it, and main returns 0 exactly when at
\* least one script was found and every verdict is a pass.
C21_NoCascade ==
    /\ OncePerScript
    /\ mainPc = "done" =>
          /\ index = test_files
          /\ exitCode = 0 <=> (test_files > 0 /\ AllPass)

\* A script that failed, then one that passed, and main has returned 1.
C21_Witness ==
    /\ mainPc = "done"
    /\ Len(results) >= 2
    /\ results[1] = "fail" /\ results[2] = "pass"
    /\ passed + failed = test_files
    /\ exitCode = 1

\* C22: when the wrapper has exited, the test script it spawned is no
\* longer running, on every exit path.
C22_ScriptReapedOnExit == wrapPc = "exited" => testScript # "running"

\* The last thing close() sent to the child.
LastSignal(q) == IF q = <<>> THEN "none" ELSE q[Len(q)]

\* C31: SIGKILL is sent only by a close() that requested termination before
\* and whose wait of 5 s ran out with the child still running; while the
\* child is found exited in that wait no signal is sent.
C31_KillOnlyAfterGrace ==
    [][/\ (signals' # signals /\ LastSignal(signals') = "SIGKILL") =>
             /\ LastSignal(signals) = "SIGTERM"
             /\ pc[Main] = "close_wait"
             /\ waited[Main] >= close_grace
             /\ child # "exited"
       /\ (pc[Main] = "close_wait" /\ child = "exited") => signals' = signals]_vars

\* close() has returned after both signals, and SIGTERM came first.
C31_Witness ==
    /\ closes >= 1
    /\ ctx[Main] = "close" /\ pc[Main] = "idle"
    /\ signals = <<"SIGTERM", "SIGKILL">>
    /\ waited[Main] >= close_grace

\* C32: the child's input stream was closed before termination was
\* requested: "stdin.close" precedes every SIGTERM among the things close()
\* did to the child.
C32_InputClosedBeforeTerminate ==
    \A i \in 1..Len(signals) :
        signals[i] = "SIGTERM" => \E j \in 1..(i - 1) : signals[j] = "stdin.close"

\* C33: once close() has returned, neither the child nor a process it
\* spawned is running.
C33_NoGroupMemberLeft ==
    (ctx[Main] = "close" /\ pc[Main] = "idle") =>
        (child = "exited" /\ descendant # "running")

\* C34: what a run of cleanup() removes from the process table matches the
\* test-process pattern and has outlived its run; the wrapper's own process
\* stays.
C34_SweepKillsOnlyOrphans ==
    [][cleanups' > cleanups =>
          /\ Self \in procs'
          /\ \A q \in procs \ procs' : Matched(q) /\ q.orphan]_vars

\* C35: _next_id hands out every id once, so that two concurrent calls never
\* wait for the same id.
C35_IdsNeverShared ==
    /\ \A i, j \in 1..Len(allocated) : i # j => allocated[i] # allocated[j]
    /\ (pc[Main] = "wait" /\ pc[Other] = "wait") => rid[Main] # rid[Other]

\* C36: send_request returns None or the response to the request it sent.
C36_ReturnsOwnResponseOrNone ==
    [][(mcPc = "get" /\ mcPc' = "idle") =>
          (mcReturned' = McNone \/ mcReturned'.id = mcRequestId)]_vars

\* C37: test_pattern_with_timeout returns True only if read_output has read
\* the response to the query, and False only if it has not.
QueryAnswered == \E i \in 1..Len(response_lines) : response_lines[i].to = "query"

C37_TrueOnlyOnQueryResponse ==
    /\ wcResult = "True" => QueryAnswered
    /\ wcResult = "False" => ~QueryAnswered

\* C38: at most one client is not closed; after teardown() none is and
\* self.client is None; without a client call_tool raises RuntimeError and
\* passes nothing on.
C38_AtMostOneOpenClient ==
    /\ Cardinality(tbOpen) <= 1
    /\ tbClient = 0 => tbOpen = {}
    /\ tbOpen \subseteq {tbClient}
====
